---- MODULE Spec2Model ----
(***************************************************************************)
(* Model of anal/cli/commands/runserver.py: the development-server         *)
(* launcher (run_development_server), the ASGI application locator         *)
(* (find_asgi_application, check_asgi_module, check_asgi_module_direct)    *)
(* and the reload watch set (get_reload_dirs).                             *)
(*                                                                         *)
(* One behaviour is one run of the process in one project directory: the   *)
(* directory's contents, the availability of uvicorn and the arguments are *)
(* fixed by Init, then one of the three public functions is called.        *)
(*                                                                         *)
(* Python str values are sequences of one-character strings, so that       *)
(* split, replace, rstrip and glob are computed as Python computes them.   *)
(***************************************************************************)
EXTENDS Integers, Sequences, FiniteSets, TLC

VARIABLES
    fs,          \* the working directory: [cwd_name, top, children]
    uvicorn,     \* TRUE when `import uvicorn` succeeded (uvicorn is not None)
    args,        \* [host, port, reload, workers, settings]
    pc,          \* "start" | "serving" | "returned" | "exited" | "propagated"
    called,      \* the public function this run calls
    app_module,  \* what find_asgi_application returned, None before and on "not found"
    reload_dirs, \* what get_reload_dirs returned
    imports,     \* module names handed to importlib.import_module, in order
    run_calls,   \* the keyword arguments of every uvicorn.run call, in order
    exit_status, \* <<code>> once sys.exit(code) was called, else <<>>
    stdout       \* the lines printed, in order

vars == <<fs, uvicorn, args, pc, called, app_module, reload_dirs, imports, run_calls,
          exit_status, stdout>>

-----------------------------------------------------------------------------
(* Bounds of the explored inputs *)

\* most immediate children of the working directory (reload watch set layouts)
MaxChildren == 2
\* most immediate subdirectories holding a candidate module (locator layouts)
MaxSubdirs == 1
\* largest requested worker count
MaxWorkers == 3

-----------------------------------------------------------------------------
(* Python str values *)

Str_main        == <<"m","a","i","n">>
Str_asgi        == <<"a","s","g","i">>
Str_app         == <<"a","p","p">>
Str_application == <<"a","p","p","l","i","c","a","t","i","o","n">>
Str_proj        == <<"p","r","o","j">>
Str_pkg         == <<"p","k","g">>
Str_dotgit      == <<".","g","i","t">>
Str_pycache     == <<"_","_","p","y","c","a","c","h","e","_","_">>
Str_init_py     == <<"_","_","i","n","i","t","_","_",".","p","y">>
Str_dot_py      == <<".","p","y">>

\* Optional[str]: None is a value no str equals (every str element is one character)
None == <<"None">>

\* evaluates e once and applies F to its value
With(e, F(_)) == CHOOSE r \in {F(v) : v \in {e}} : TRUE

\* c in s, for a one-character c
StrContains(str, c) == With(str, LAMBDA s : \E i \in 1..Len(s) : s[i] = c)

\* s.startswith(p)
StrStartsWith(s, p) == Len(s) >= Len(p) /\ SubSeq(s, 1, Len(p)) = p

\* s.replace(old, new), old non-empty: leftmost non-overlapping occurrences;
\* R[i] is the replacement of s[i..]
StrReplace(str, old, new) ==
    With(str, LAMBDA s :
        LET R[i \in 1..(Len(s) + 1)] ==
                IF i > Len(s) THEN <<>>
                ELSE IF /\ i + Len(old) - 1 <= Len(s)
                        /\ SubSeq(s, i, i + Len(old) - 1) = old
                     THEN new \o R[i + Len(old)]
                     ELSE <<s[i]>> \o R[i + 1]
        IN  R[1])

\* the first position of sep in s at or after i, Len(s) + 1 when there is none
FirstAt(s, sep, i) ==
    LET at == {k \in i..Len(s) : s[k] = sep}
    IN  IF at = {} THEN Len(s) + 1 ELSE CHOOSE k \in at : \A j \in at : k <= j

\* s.split(sep, 1) for a one-character sep: one part when sep does not occur
StrSplit1(str, sep) ==
    With(str, LAMBDA s :
        With(FirstAt(s, sep, 1), LAMBDA i :
            IF i > Len(s) THEN <<s>>
            ELSE <<SubSeq(s, 1, i - 1), SubSeq(s, i + 1, Len(s))>>))

\* s.split(sep) for a one-character sep; P[i] is the parts of s[i..]
StrSplit(str, sep) ==
    With(str, LAMBDA s :
        LET P[i \in 1..(Len(s) + 1)] ==
                With(FirstAt(s, sep, i), LAMBDA k :
                    IF k > Len(s) THEN <<SubSeq(s, i, Len(s))>>
                    ELSE <<SubSeq(s, i, k - 1)>> \o P[k + 1])
        IN  P[1])

\* s.rstrip(chars): chars is a SET of characters, not a suffix
StrRStrip(str, chars) ==
    With(str, LAMBDA s :
        LET keep == {k \in 1..Len(s) : s[k] \notin chars}
        IN  IF keep = {} THEN <<>>
            ELSE SubSeq(s, 1, CHOOSE k \in keep : \A j \in keep : j <= k))

\* the characters of a str
Chars(s) == {s[i] : i \in 1..Len(s)}

Range(seq) == {seq[i] : i \in 1..Len(seq)}

-----------------------------------------------------------------------------
(* The project directory *)

\* What importing a module does and what it defines
Kinds == {"ModuleNotFound",  \* no such file: ModuleNotFoundError
          "ImportRaises",    \* top-level code raises an Exception
          "ImportExits",     \* top-level code raises SystemExit / KeyboardInterrupt
          "NoAttr",          \* imports, does not define the attribute
          "PlainValue",      \* imports, the attribute is not callable
          "Callable"}        \* imports, the attribute is callable

TopModules == {Str_main, Str_asgi, Str_app, Str_application}

\* the attribute a module of this base name defines (when it defines one)
DefinedAttr(base) == IF base = Str_asgi THEN Str_application ELSE Str_app

\* an immediate child of the working directory; a directory may hold one
\* candidate module, as a file <base>.py (form "py") or as a package
\* directory <base>/ (form "pkg")
NoModule(name, is_dir, has_init) ==
    [name |-> name, is_dir |-> is_dir, has_init |-> has_init,
     base |-> <<>>, form |-> "none", kind |-> "ModuleNotFound"]

ModuleFileName(child) ==
    IF child.form = "py" THEN child.base \o Str_dot_py ELSE child.base

\* the names listed in a child directory
EntriesOf(child) ==
    IF ~child.is_dir THEN {}
    ELSE (IF child.has_init THEN {Str_init_py} ELSE {})
         \cup (IF child.form = "none" THEN {} ELSE {ModuleFileName(child)})

\* the top-level module files, as directory entries
TopOrder == <<Str_main, Str_asgi, Str_app, Str_application>>

TopFiles ==
    LET present == SelectSeq(TopOrder, LAMBDA m : fs.top[m] # "ModuleNotFound")
    IN  [i \in 1..Len(present) |-> NoModule(present[i] \o Str_dot_py, FALSE, FALSE)]

\* Path.cwd().iterdir(): every immediate child, in directory order
Iterdir == fs.children \o TopFiles

\* str(Path.cwd()): the project directory sits under the root
CwdPath == <<"/">> \o fs.cwd_name

-----------------------------------------------------------------------------
(* glob.glob over the working directory *)

HasMagic(s) == \E i \in 1..Len(s) : s[i] \in {"*", "?", "["}

IsHidden(name) == name # <<>> /\ name[1] = "."

\* os.path.split: the head loses its trailing separators unless it is all separators
PathSplit(path) ==
    With(path, LAMBDA p :
        LET slashes == {k \in 1..Len(p) : p[k] = "/"}
            i    == IF slashes = {} THEN 0
                    ELSE CHOOSE k \in slashes : \A j \in slashes : j <= k
            head == SubSeq(p, 1, i)
            tail == SubSeq(p, i + 1, Len(p))
        IN  <<IF Chars(head) \subseteq {"/"} THEN head ELSE StrRStrip(head, {"/"}), tail>>)

\* fnmatch for patterns of literal characters and "*"; M[i, j] matches
\* name[i..] against pat[j..]
Fnmatch(name, pat) ==
    LET M[i \in 1..(Len(name) + 1), j \in 1..(Len(pat) + 1)] ==
            IF j > Len(pat) THEN i > Len(name)
            ELSE IF pat[j] = "*"
                 THEN M[i, j + 1] \/ (i <= Len(name) /\ M[i + 1, j])
                 ELSE i <= Len(name) /\ name[i] = pat[j] /\ M[i + 1, j + 1]
    IN  M[1, 1]

\* glob's listing of the directories of the working directory that match a
\* pattern; a hidden name matches only a pattern that itself starts with "."
Glob1Dirs(pattern) ==
    LET dirs == SelectSeq(Iterdir, LAMBDA c :
                    /\ c.is_dir
                    /\ Fnmatch(c.name, pattern)
                    /\ (IsHidden(pattern) \/ ~IsHidden(c.name)))
    IN  [i \in 1..Len(dirs) |-> dirs[i].name]

\* os.path.lexists(os.path.join(dirname, basename)) for a child directory
Lexists(dirname, basename) ==
    \E i \in 1..Len(fs.children) :
        fs.children[i].name = dirname /\ basename \in EntriesOf(fs.children[i])

\* glob.glob(pathname) for a pathname whose directory part is a pattern
\* without separators and whose last part is literal: the shape every
\* wildcard candidate is turned into
Glob(pathname) ==
    With(PathSplit(pathname), LAMBDA sp :
        With(SelectSeq(Glob1Dirs(sp[1]), LAMBDA d : Lexists(d, sp[2])), LAMBDA hits :
            [i \in 1..Len(hits) |-> hits[i] \o <<"/">> \o sp[2]]))

-----------------------------------------------------------------------------
(* importlib.import_module, hasattr, callable *)

\* the import outcomes of the module <dir>.<base> held by a child directory
ChildModule(dir, base) ==
    {fs.children[k].kind : k \in {i \in 1..Len(fs.children) :
        /\ fs.children[i].name = dir
        /\ fs.children[i].is_dir
        /\ fs.children[i].form # "none"
        /\ fs.children[i].base = base}}

\* what importing the dotted name does; a name with an empty first segment is
\* a relative import without a package (TypeError), a name no file answers to
\* is ModuleNotFoundError; a directory imports as a package without attributes
import_module(module_name) ==
    With(StrSplit(module_name, "."), LAMBDA segs :
        IF segs[1] = <<>> THEN "ImportRaises"
        ELSE IF segs[1] \in TopModules
             THEN IF Len(segs) = 1 THEN fs.top[segs[1]]
                  ELSE IF fs.top[segs[1]] \in {"ImportRaises", "ImportExits"}
                       THEN fs.top[segs[1]]
                       ELSE "ModuleNotFound"
        ELSE IF Len(segs) = 1
             THEN IF \E i \in 1..Len(fs.children) :
                         fs.children[i].is_dir /\ fs.children[i].name = segs[1]
                  THEN "NoAttr" ELSE "ModuleNotFound"
        ELSE IF Len(segs) = 2 /\ ChildModule(segs[1], segs[2]) # {}
             THEN CHOOSE k \in ChildModule(segs[1], segs[2]) : TRUE
             ELSE "ModuleNotFound")

LastSegment(module_name) ==
    With(StrSplit(module_name, "."), LAMBDA segs : segs[Len(segs)])

\* hasattr(module, app_name), for the module an import of module_name gave
\* with this outcome
hasattr(outcome, module_name, app_name) ==
    /\ outcome \in {"PlainValue", "Callable"}
    /\ app_name = DefinedAttr(LastSegment(module_name))

\* callable with the check left out: whatever the attribute is passes
callable_Unchecked(outcome) == TRUE

\* callable(getattr(module, app_name))
callable(outcome) == outcome = "Callable"

-----------------------------------------------------------------------------
(* The locator *)

\* the outcome of a call: it returns value, or a BaseException that
\* `except Exception` does not catch leaves it (raised); imports are the
\* module names it handed to import_module, in order
Return(value, imported) == [value |-> value, raised |-> FALSE, imports |-> imported]
Propagate(imported)     == [value |-> FALSE, raised |-> TRUE, imports |-> imported]

\* out, after the imports made before it
After(imported, out) == [out EXCEPT !.imports = imported \o @]

\* check_asgi_module_direct catching ImportError only: any other Exception of
\* the module's top-level code leaves it
check_asgi_module_direct_ImportErrorOnly(module_path) ==
    With(StrSplit1(module_path, ":"), LAMBDA parts :
        IF Len(parts) # 2 THEN Return(FALSE, <<>>)
        ELSE With(import_module(parts[1]), LAMBDA outcome :
            IF outcome \in {"ImportExits", "ImportRaises"} THEN Propagate(<<parts[1]>>)
            ELSE IF outcome = "ModuleNotFound" THEN Return(FALSE, <<parts[1]>>)
            ELSE IF ~hasattr(outcome, parts[1], parts[2])
                 THEN Return(FALSE, <<parts[1]>>)
            ELSE Return(callable(outcome), <<parts[1]>>)))

\* lines 153-172
check_asgi_module_direct(module_path) ==
    With(StrSplit1(module_path, ":"), LAMBDA parts :
        IF Len(parts) # 2 THEN Return(FALSE, <<>>)   \* unpacking raises ValueError
        ELSE With(import_module(parts[1]), LAMBDA outcome :
            IF outcome = "ImportExits" THEN Propagate(<<parts[1]>>)
            ELSE IF outcome \in {"ModuleNotFound", "ImportRaises"}
                 THEN Return(FALSE, <<parts[1]>>)
            ELSE IF ~hasattr(outcome, parts[1], parts[2])
                 THEN Return(FALSE, <<parts[1]>>)
            ELSE Return(callable(outcome), <<parts[1]>>)))

\* line 141: path -> dotted module name; "\\\\" in the source is two backslashes
ModNameOf(path) ==
    StrRStrip(StrReplace(StrReplace(path, <<"/">>, <<".">>), <<"\\", "\\">>, <<".">>),
              Chars(Str_dot_py))

\* lines 139-145: the loop over the glob results, from the i-th on
RECURSIVE CheckPaths(_, _, _)
CheckPaths(paths, app_name, i) ==
    IF i > Len(paths) THEN Return(FALSE, <<>>)
    ELSE With(check_asgi_module_direct(ModNameOf(paths[i]) \o <<":">> \o app_name),
              LAMBDA r :
                  IF r.raised \/ r.value THEN r
                  ELSE After(r.imports, CheckPaths(paths, app_name, i + 1)))

\* lines 118-150
check_asgi_module(module_path) ==
    With(StrSplit1(module_path, ":"), LAMBDA parts :
        IF Len(parts) # 2 THEN Return(FALSE, <<>>)
        ELSE IF StrContains(parts[1], "*")
             THEN With(Glob(StrReplace(parts[1], <<"*">>, <<"*", "/">>)), LAMBDA paths :
                       CheckPaths(paths, parts[2], 1))
             ELSE check_asgi_module_direct(module_path))

Candidate(module_name, app_name) == module_name \o <<":">> \o app_name

\* lines 87-109: the ordered candidate list
candidates ==
    LET project_name == fs.cwd_name
    IN  << Candidate(Str_main, Str_app),
           Candidate(Str_asgi, Str_application),
           Candidate(Str_app, Str_app),
           Candidate(Str_application, Str_app),
           Candidate(<<"*", "/">> \o Str_main, Str_app),
           Candidate(<<"*", "/">> \o Str_asgi, Str_application),
           Candidate(<<"*", "/">> \o Str_app, Str_app),
           Candidate(project_name \o <<".">> \o Str_main, Str_app),
           Candidate(project_name \o <<".">> \o Str_asgi, Str_application),
           Candidate(project_name \o <<"/">> \o Str_main, Str_app),
           Candidate(project_name \o <<"/">> \o Str_asgi, Str_application) >>

\* the loop without its early return: the last verified candidate wins
RECURSIVE FindFrom_LastMatch(_, _)
FindFrom_LastMatch(cands, i) ==
    IF i > Len(cands) THEN Return(None, <<>>)
    ELSE With(check_asgi_module(cands[i]), LAMBDA r :
             IF r.raised THEN r
             ELSE With(FindFrom_LastMatch(cands, i + 1), LAMBDA rest :
                      IF ~rest.raised /\ rest.value = None /\ r.value
                      THEN Return(cands[i], r.imports \o rest.imports)
                      ELSE After(r.imports, rest)))

\* lines 111-115: the loop of find_asgi_application, from the i-th candidate on
RECURSIVE FindFrom(_, _)
FindFrom(cands, i) ==
    IF i > Len(cands) THEN Return(None, <<>>)
    ELSE With(check_asgi_module(cands[i]), LAMBDA r :
             IF r.raised THEN r
             ELSE IF r.value THEN Return(cands[i], r.imports)
             ELSE After(r.imports, FindFrom(cands, i + 1)))

\* lines 79-115
find_asgi_application == With(candidates, LAMBDA cands : FindFrom(cands, 1))

\* the filter without its cache-directory test
IsWatched_CacheIncluded(item) ==
    /\ item.is_dir
    /\ ~StrStartsWith(item.name, <<".">>)
    /\ Str_init_py \in EntriesOf(item)

\* lines 181-183
IsWatched(item) ==
    /\ item.is_dir
    /\ ~StrStartsWith(item.name, <<".">>)
    /\ ~(item.name = Str_pycache)
    /\ Str_init_py \in EntriesOf(item)

\* lines 175-186
get_reload_dirs ==
    With(SelectSeq(Iterdir, IsWatched), LAMBDA kept :
        <<CwdPath>> \o [i \in 1..Len(kept) |-> CwdPath \o <<"/">> \o kept[i].name])

-----------------------------------------------------------------------------
(* run_development_server *)

\* settings=None; a Settings object is a function from the attributes it has
NoSettings == [None |-> TRUE]

\* the availability check left out
uvicorn_is_None_Unchecked == FALSE

\* line 35
uvicorn_is_None == ~uvicorn

\* the not-found check left out
not_app_module_Unchecked(found) == FALSE

\* line 42: `not app_module` is true of None and of the empty str
not_app_module(found) == found = None \/ found = <<>>

\* the requested worker count passed through
config_workers_Requested(reload, workers) == workers

\* line 59
config_workers(reload, workers) == IF ~reload THEN workers ELSE 1

\* line 60
config_log_level(settings) ==
    IF settings # NoSettings /\ settings.DEBUG THEN "debug" ELSE "info"

\* each SSL attribute added on its own when it is set
ssl_update_Each(settings) ==
    IF settings = NoSettings THEN <<>>
    ELSE (IF "SSL_KEYFILE" \in DOMAIN settings /\ settings.SSL_KEYFILE # ""
          THEN [ssl_keyfile |-> settings.SSL_KEYFILE] ELSE <<>>)
         @@
         (IF "SSL_CERTFILE" \in DOMAIN settings /\ settings.SSL_CERTFILE # ""
          THEN [ssl_certfile |-> settings.SSL_CERTFILE] ELSE <<>>)

\* lines 65-71: the keys config.update adds
ssl_update(settings) ==
    IF /\ settings # NoSettings
       /\ "SSL_KEYFILE" \in DOMAIN settings /\ "SSL_CERTFILE" \in DOMAIN settings
       /\ settings.SSL_KEYFILE # "" /\ settings.SSL_CERTFILE # ""
    THEN [ssl_keyfile |-> settings.SSL_KEYFILE, ssl_certfile |-> settings.SSL_CERTFILE]
    ELSE <<>>

\* lines 54-71
uvicorn_config(found) ==
    ssl_update(args.settings) @@
    [app        |-> found,
     host       |-> args.host,
     port       |-> args.port,
     reload     |-> args.reload,
     workers    |-> config_workers(args.reload, args.workers),
     log_level  |-> config_log_level(args.settings),
     access_log |-> TRUE]

Msg_uvicorn_required == "Error: uvicorn is required to run the server."
Msg_install          == "Install it with: pip install uvicorn[standard]"
Msg_not_found        == "Error: Could not find ASGI application."
Msg_hint             == "Make sure you have a main.py or asgi.py file with an 'app' or 'application' variable."
Msg_starting         == "Starting development server at http://{host}:{port}"
Msg_quit             == "Quit the server with CONTROL-C."
Msg_reload           == "Auto-reload is enabled. The server will restart when code changes."
Msg_stopped          == "\\nServer stopped."

\* lines 35-38: uvicorn is missing
RunWithoutUvicorn ==
    /\ pc = "start"
    /\ uvicorn_is_None
    /\ called' = "run_development_server"
    /\ stdout' = stdout \o <<Msg_uvicorn_required, Msg_install>>
    /\ exit_status' = <<1>>
    /\ pc' = "exited"
    /\ UNCHANGED <<fs, uvicorn, args, app_module, reload_dirs, imports, run_calls>>

\* lines 41: a candidate module leaves the locator with a BaseException
RunPropagates ==
    /\ pc = "start"
    /\ ~uvicorn_is_None
    /\ \E r \in {find_asgi_application} :
        /\ r.raised
        /\ called' = "run_development_server"
        /\ imports' = imports \o r.imports
        /\ pc' = "propagated"
        /\ UNCHANGED <<fs, uvicorn, args, app_module, reload_dirs, run_calls, exit_status, stdout>>

\* lines 41-45: no application found
RunNotFound ==
    /\ pc = "start"
    /\ ~uvicorn_is_None
    /\ \E r \in {find_asgi_application} :
        /\ ~r.raised
        /\ not_app_module(r.value)
        /\ called' = "run_development_server"
        /\ imports' = imports \o r.imports
        /\ app_module' = r.value
        /\ stdout' = stdout \o <<Msg_not_found, Msg_hint>>
        /\ exit_status' = <<1>>
        /\ pc' = "exited"
        /\ UNCHANGED <<fs, uvicorn, args, reload_dirs, run_calls>>

\* lines 41-74: the application is handed to uvicorn.run, which blocks
RunServes ==
    /\ pc = "start"
    /\ ~uvicorn_is_None
    /\ \E r \in {find_asgi_application} :
        /\ ~r.raised
        /\ ~not_app_module(r.value)
        /\ called' = "run_development_server"
        /\ imports' = imports \o r.imports
        /\ app_module' = r.value
        /\ stdout' = stdout \o <<Msg_starting, Msg_quit>>
                                \o (IF args.reload THEN <<Msg_reload>> ELSE <<>>)
        /\ run_calls' = Append(run_calls, uvicorn_config(r.value))
        /\ pc' = "serving"
        /\ UNCHANGED <<fs, uvicorn, args, reload_dirs, exit_status>>

run_development_server ==
    RunWithoutUvicorn \/ RunPropagates \/ RunNotFound \/ RunServes

\* uvicorn.run returns
ServerReturns ==
    /\ pc = "serving"
    /\ pc' = "returned"
    /\ UNCHANGED <<fs, uvicorn, args, called, app_module, reload_dirs, imports, run_calls,
                   exit_status, stdout>>

\* lines 75-76: uvicorn.run raises KeyboardInterrupt
ServerInterrupted ==
    /\ pc = "serving"
    /\ stdout' = Append(stdout, Msg_stopped)
    /\ pc' = "returned"
    /\ UNCHANGED <<fs, uvicorn, args, called, app_module, reload_dirs, imports, run_calls,
                   exit_status>>

\* find_asgi_application called on its own
CallFind ==
    /\ pc = "start"
    /\ \E r \in {find_asgi_application} :
        /\ called' = "find_asgi_application"
        /\ imports' = imports \o r.imports
        /\ IF r.raised
               THEN pc' = "propagated" /\ UNCHANGED app_module
               ELSE pc' = "returned" /\ app_module' = r.value
        /\ UNCHANGED <<fs, uvicorn, args, reload_dirs, run_calls, exit_status, stdout>>

\* get_reload_dirs called on its own
CallReloadDirs ==
    /\ pc = "start"
    /\ called' = "get_reload_dirs"
    /\ reload_dirs' = get_reload_dirs
    /\ pc' = "returned"
    /\ UNCHANGED <<fs, uvicorn, args, app_module, imports, run_calls, exit_status, stdout>>

-----------------------------------------------------------------------------
(* The explored projects and arguments *)

\* the working directory's base name
CwdNames == {Str_proj}

TopAll == [TopModules -> Kinds]

\* projects whose only top-level candidate, if any, is main.py
TopMainOnly ==
    {[m \in TopModules |-> IF m = Str_main THEN k ELSE "ModuleNotFound"] : k \in Kinds}

\* projects without top-level candidate, or with a main.py that matches, or
\* with a main.py whose import ends the process
TopAboveSubdirs ==
    {t \in TopMainOnly : t[Str_main] \in {"ModuleNotFound", "Callable", "ImportExits"}}

\* subdirectories (regular packages) that hold a candidate module
Subdirs ==
    {[name |-> n, is_dir |-> TRUE, has_init |-> TRUE, base |-> b, form |-> f, kind |-> k] :
        n \in {Str_proj, Str_pkg, Str_dotgit},
        b \in {Str_main, Str_asgi, Str_app}, f \in {"py", "pkg"},
        k \in Kinds \ {"ModuleNotFound"}}

\* children of any sort that hold no candidate module
PlainChildren ==
    {NoModule(n, d, h) : n \in {Str_proj, Str_pkg, Str_dotgit, Str_pycache},
                         d \in BOOLEAN, h \in BOOLEAN} \ 
    {NoModule(n, FALSE, TRUE) : n \in {Str_proj, Str_pkg, Str_dotgit, Str_pycache}}

\* directory listings of at most n entries with distinct names
Listings(S, n) ==
    {l \in UNION {[1..k -> S] : k \in 0..n} :
        \A i \in 1..Len(l), j \in 1..Len(l) : i # j => l[i].name # l[j].name}

Settings(debug, key, cert) ==
    [a \in {"DEBUG"} \cup (IF key = "absent" THEN {} ELSE {"SSL_KEYFILE"})
                     \cup (IF cert = "absent" THEN {} ELSE {"SSL_CERTFILE"}) |->
        IF a = "DEBUG" THEN debug ELSE IF a = "SSL_KEYFILE" THEN key ELSE cert]

SettingsValues ==
    {NoSettings} \cup
    {Settings(d, k, c) : d \in BOOLEAN, k \in {"absent", "", "key.pem"},
                         c \in {"absent", "", "cert.pem"}}

\* the defaults of lines 19-23
DefaultArgs ==
    [host |-> "127.0.0.1", port |-> 8000, reload |-> FALSE, workers |-> 1,
     settings |-> NoSettings]

AllArgs ==
    [host : {"127.0.0.1", "0.0.0.0"}, port : {8000, 8080}, reload : BOOLEAN,
     workers : 1..MaxWorkers, settings : SettingsValues]

Fresh ==
    /\ pc = "start"
    /\ called = "nothing"
    /\ app_module = None
    /\ reload_dirs = <<>>
    /\ imports = <<>>
    /\ run_calls = <<>>
    /\ exit_status = <<>>
    /\ stdout = <<>>

\* every combination of the four top-level candidate modules
InitTopLevel ==
    /\ fs \in [cwd_name : CwdNames, top : TopAll, children : {<<>>}]
    /\ uvicorn \in BOOLEAN
    /\ args = DefaultArgs

\* candidate modules in subdirectories
InitSubdirs ==
    /\ fs \in [cwd_name : CwdNames, top : TopAboveSubdirs,
               children : Listings(Subdirs, MaxSubdirs)]
    /\ uvicorn = TRUE
    /\ args = DefaultArgs

\* children of every sort
InitChildren ==
    /\ fs \in [cwd_name : CwdNames, top : TopAboveSubdirs,
               children : Listings(PlainChildren, MaxChildren)]
    /\ uvicorn = TRUE
    /\ args = DefaultArgs

\* every combination of arguments
InitArgs ==
    /\ fs \in [cwd_name : CwdNames, top : TopMainOnly, children : {<<>>}]
    /\ uvicorn \in BOOLEAN
    /\ args \in AllArgs

Init == Fresh /\ (InitTopLevel \/ InitSubdirs \/ InitChildren \/ InitArgs)

Next ==
    \/ run_development_server
    \/ ServerReturns
    \/ ServerInterrupted
    \/ CallFind
    \/ CallReloadDirs

Spec == Init /\ [][Next]_vars

-----------------------------------------------------------------------------
(* Vocabulary of the properties *)

\* the verification of every candidate in this project: V[i] matches
\* (returns True), is a non-match (returns False), or leaves by a BaseException
Verifications == [i \in 1..Len(candidates) |-> check_asgi_module(candidates[i])]
Matches(V, i)  == ~V[i].raised /\ V[i].value
NonMatch(V, i) == ~V[i].raised /\ ~V[i].value

\* i is the first candidate that matches, every earlier one being a non-match
FirstMatch(V, i) == Matches(V, i) /\ \A j \in 1..(i - 1) : NonMatch(V, j)

CandidateIds == 1..Len(candidates)

\* the run reached find_asgi_application
LocatorRan ==
    \/ called = "find_asgi_application"
    \/ called = "run_development_server" /\ uvicorn

\* find_asgi_application returned (app_module holds what it returned)
LocatorReturned == LocatorRan /\ pc # "propagated"

ModuleOf(i) == StrSplit1(candidates[i], ":")[1]

ServerRan == called = "run_development_server"

\* C1: whenever find_asgi_application returns, it returns the earliest
\* candidate of the fixed priority order (main:app, asgi:application, app:app,
\* application:app, the wildcard candidates, the project-name candidates) whose
\* verification succeeds, and None only when every candidate is a non-match;
\* main:app wins when main:app and asgi:application both verify, and
\* asgi:application is the result when it is the only candidate that verifies.
C1_FirstVerifiedCandidateWins ==
    LocatorRan =>
        /\ SubSeq(candidates, 1, 4) = << Candidate(Str_main, Str_app),
                                         Candidate(Str_asgi, Str_application),
                                         Candidate(Str_app, Str_app),
                                         Candidate(Str_application, Str_app) >>
        /\ \A i \in 5..7 : StrContains(ModuleOf(i), "*")
        /\ \A i \in 8..Len(candidates) : StrStartsWith(ModuleOf(i), fs.cwd_name)
        /\ With(Verifications, LAMBDA V :
              /\ LocatorReturned =>
                  /\ \A i \in CandidateIds : FirstMatch(V, i) <=> app_module = candidates[i]
                  /\ app_module = None <=> \A i \in CandidateIds : NonMatch(V, i)
                  /\ (Matches(V, 1) /\ Matches(V, 2))
                        => app_module = Candidate(Str_main, Str_app)
                  /\ (Matches(V, 2) /\ \A i \in CandidateIds \ {2} : NonMatch(V, i))
                        => app_module = Candidate(Str_asgi, Str_application)
              /\ (\E i \in CandidateIds : FirstMatch(V, i)) => pc # "propagated")

\* both main.py and asgi.py define their callable, and main:app was returned
C1_Witness ==
    /\ called = "find_asgi_application" /\ pc = "returned"
    /\ fs.top[Str_main] = "Callable" /\ fs.top[Str_asgi] = "Callable"
    /\ app_module = Candidate(Str_main, Str_app)

\* the i-th candidate's module imports and exposes the attribute, which is
\* not callable
PlainValueCandidate(i) ==
    /\ ~StrContains(ModuleOf(i), "*")
    /\ import_module(ModuleOf(i)) = "PlainValue"

\* C2: a candidate whose module imports and exposes the attribute as a
\* non-callable value is a non-match, it is never the result, and the search
\* goes on: the next candidate is probed and the first later candidate that
\* verifies is returned (main.app a plain value and asgi.application callable
\* gives asgi:application).
C2_NonCallableIsSkipped ==
    LocatorRan => With(Verifications, LAMBDA V :
        \A i \in CandidateIds : PlainValueCandidate(i) =>
            /\ NonMatch(V, i)
            /\ LocatorReturned =>
                /\ app_module # candidates[i]
                /\ (\A j \in 1..(i - 1) : NonMatch(V, j)) =>
                    /\ \A k \in (i + 1)..Len(candidates) :
                          (Matches(V, k) /\ \A j \in (i + 1)..(k - 1) : NonMatch(V, j))
                              => app_module = candidates[k]
                    /\ i <= 3 => ModuleOf(i + 1) \in Range(imports)
            /\ (LocatorReturned /\ i = 1 /\ fs.top[Str_asgi] = "Callable")
                  => app_module = Candidate(Str_asgi, Str_application))

\* main.app is a plain value, asgi.application is callable, the result is
\* asgi:application
C2_Witness ==
    /\ called = "find_asgi_application" /\ pc = "returned"
    /\ fs.top[Str_main] = "PlainValue" /\ fs.top[Str_asgi] = "Callable"
    /\ imports = <<Str_main, Str_asgi>>
    /\ app_module = Candidate(Str_asgi, Str_application)

\* C3: when every candidate is a non-match, run_development_server (with
\* uvicorn installed) prints the diagnostic, exits with status 1 and never
\* calls uvicorn.run, whatever host, port, reload, workers and settings are.
C3_NotFoundExitsWithoutServing ==
    (ServerRan /\ uvicorn /\ \A i \in CandidateIds : NonMatch(Verifications, i)) =>
        /\ pc = "exited"
        /\ exit_status = <<1>>
        /\ exit_status # <<0>>
        /\ stdout = <<Msg_not_found, Msg_hint>>
        /\ run_calls = <<>>

\* no candidate exists, reload and several workers and SSL settings were
\* requested, the run exited
C3_Witness ==
    /\ ServerRan /\ uvicorn /\ pc = "exited"
    /\ \A i \in CandidateIds : NonMatch(Verifications, i)
    /\ args.reload /\ args.workers > 1
    /\ args.settings # NoSettings /\ "SSL_KEYFILE" \in DOMAIN args.settings
    /\ exit_status = <<1>>

\* direct verification of a module-path:attribute string succeeds
VerifiesDirectly(path) ==
    ~check_asgi_module_direct(path).raised /\ check_asgi_module_direct(path).value

\* C4: every value find_asgi_application returns, and every app handed to
\* uvicorn.run, is a module-path:attribute pair that passes direct
\* verification, also when it was found through a wildcard or project-name
\* candidate.
C4_ReturnedPairVerifiesDirectly ==
    /\ (LocatorReturned /\ app_module # None) => VerifiesDirectly(app_module)
    /\ \A k \in 1..Len(run_calls) : VerifiesDirectly(run_calls[k].app)

Failures == {"ModuleNotFound", "ImportRaises", "NoAttr", "PlainValue"}

\* the k-th import was the last one the search made
LastImport(k) == k = Len(imports)

\* the search went past the k-th import: another import followed, or the list
\* was exhausted (its last candidate is always imported) and None returned
SearchWentOn(k) ==
    \/ k < Len(imports)
    \/ /\ imports[k] = ModuleOf(Len(candidates))
       /\ pc # "propagated"
       /\ app_module = None

\* C5 as claimed: no failure of a candidate, an interpreter-exit or interrupt
\* raised by its top-level code included, leaves the locator; the search goes
\* on with the next candidate.
C5_NoFailurePropagates ==
    LocatorRan =>
        /\ pc # "propagated"
        /\ \A k \in 1..Len(imports) :
              import_module(imports[k]) \in Failures \cup {"ImportExits"} => SearchWentOn(k)

\* C5 as the code has it: a failure that is an Exception (missing module,
\* import error, missing or non-callable attribute, any Exception of the
\* module's top-level code) is a non-match and the search goes on with the
\* next candidate; a SystemExit or KeyboardInterrupt of a candidate module's
\* top-level code is the only thing that leaves check_asgi_module_direct,
\* check_asgi_module and find_asgi_application, and it ends the search.
C5_OnlyExitStyleExceptionsPropagate ==
    LocatorRan =>
        /\ \A k \in 1..Len(imports) :
              /\ import_module(imports[k]) \in Failures => SearchWentOn(k)
              /\ import_module(imports[k]) = "ImportExits" => LastImport(k) /\ pc = "propagated"
        /\ pc = "propagated" =>
              imports # <<>> /\ import_module(imports[Len(imports)]) = "ImportExits"
        /\ \A i \in CandidateIds :
              ~StrContains(ModuleOf(i), "*") =>
                  (Verifications[i].raised <=> import_module(ModuleOf(i)) = "ImportExits")

\* a module whose import raises an Exception was probed and a later candidate
\* was returned
C5_Witness ==
    /\ called = "find_asgi_application" /\ pc = "returned"
    /\ fs.top[Str_main] = "ImportRaises"
    /\ imports[1] = Str_main /\ Len(imports) > 1
    /\ app_module # None

\* an immediate, non-hidden subdirectory holds the module file <base>.py
\* defining the callable the candidates look for
SubdirModuleFile(c) ==
    /\ c.is_dir /\ ~IsHidden(c.name)
    /\ c.form = "py" /\ c.kind = "Callable"
    /\ c.base \in {Str_main, Str_asgi, Str_app}

\* C6: when no top-level candidate verifies and a subdirectory D holds main.py
\* (asgi.py, app.py) defining the callable, the wildcard candidate is expanded
\* to D.main (D.asgi, D.app), the expansion is imported and verified, and
\* find_asgi_application reports a match.
C6_SubdirModuleFileIsFound ==
    \A n \in 1..Len(fs.children) :
        (/\ LocatorReturned
         /\ \A i \in 1..4 : NonMatch(Verifications, i)
         /\ SubdirModuleFile(fs.children[n]))
        => /\ app_module # None
           /\ (fs.children[n].name \o <<".">> \o fs.children[n].base) \in Range(imports)

\* C7: in every configuration handed to uvicorn.run, workers is 1 when reload
\* is true and the requested worker count when reload is false.
C7_ReloadForcesOneWorker ==
    \A k \in 1..Len(run_calls) :
        /\ args.reload => run_calls[k].workers = 1
        /\ ~args.reload => run_calls[k].workers = args.workers
        /\ run_calls[k].reload = args.reload

\* reload with more than one worker requested reached uvicorn.run
C7_Witness ==
    /\ Len(run_calls) = 1
    /\ args.reload /\ args.workers > 1
    /\ run_calls[1].workers = 1

PathOf(name) == <<"/">> \o fs.cwd_name \o <<"/">> \o name

\* C8: the list get_reload_dirs returns holds the working directory, and
\* holds an immediate child exactly when the child is a directory whose name
\* neither starts with "." nor is __pycache__ and which contains __init__.py;
\* it holds nothing else.
C8_ReloadDirsArePackages ==
    (called = "get_reload_dirs" /\ pc = "returned") =>
        /\ reload_dirs[1] = <<"/">> \o fs.cwd_name
        /\ \A n \in 1..Len(fs.children) :
              PathOf(fs.children[n].name) \in Range(reload_dirs) <=>
                  /\ fs.children[n].is_dir
                  /\ fs.children[n].name[1] # "."
                  /\ fs.children[n].name # Str_pycache
                  /\ fs.children[n].has_init
        /\ \A k \in 2..Len(reload_dirs) :
              \E n \in 1..Len(fs.children) : reload_dirs[k] = PathOf(fs.children[n].name)

\* a package directory is watched while a cache directory holding
\* __init__.py is not
C8_Witness ==
    /\ called = "get_reload_dirs" /\ pc = "returned"
    /\ Len(fs.children) = 2
    /\ fs.children[1] = NoModule(Str_pycache, TRUE, TRUE)
    /\ fs.children[2] = NoModule(Str_pkg, TRUE, TRUE)
    /\ reload_dirs = << <<"/">> \o fs.cwd_name, PathOf(Str_pkg) >>

\* C9: without uvicorn, run_development_server exits with status 1 before
\* the locator runs: nothing is imported and uvicorn.run is never called,
\* whatever the project contains.
C9_NoUvicornExitsBeforeLocating ==
    (ServerRan /\ ~uvicorn) =>
        /\ pc = "exited"
        /\ exit_status = <<1>>
        /\ imports = <<>>
        /\ app_module = None
        /\ run_calls = <<>>
        /\ stdout = <<Msg_uvicorn_required, Msg_install>>

\* uvicorn is missing in a project whose main:app would verify
C9_Witness ==
    /\ ServerRan /\ ~uvicorn /\ pc = "exited"
    /\ fs.top[Str_main] = "Callable"
    /\ imports = <<>>

\* settings carries both SSL attributes with non-empty values
SslConfigured(settings) ==
    /\ settings # NoSettings
    /\ {"SSL_KEYFILE", "SSL_CERTFILE"} \subseteq DOMAIN settings
    /\ settings["SSL_KEYFILE"] # "" /\ settings["SSL_CERTFILE"] # ""

\* C10: in every configuration handed to uvicorn.run, ssl_keyfile and
\* ssl_certfile are both present or both absent; they are present exactly
\* when settings is given with both SSL_KEYFILE and SSL_CERTFILE non-empty,
\* and then carry those values.
C10_SslKeysComeTogether ==
    \A k \in 1..Len(run_calls) :
        /\ "ssl_keyfile" \in DOMAIN run_calls[k] <=> "ssl_certfile" \in DOMAIN run_calls[k]
        /\ "ssl_keyfile" \in DOMAIN run_calls[k] <=> SslConfigured(args.settings)
        /\ SslConfigured(args.settings) =>
              /\ run_calls[k]["ssl_keyfile"] = args.settings["SSL_KEYFILE"]
              /\ run_calls[k]["ssl_certfile"] = args.settings["SSL_CERTFILE"]

\* a settings object with only SSL_KEYFILE set reached uvicorn.run
C10_Witness ==
    /\ Len(run_calls) = 1
    /\ args.settings # NoSettings
    /\ DOMAIN args.settings = {"DEBUG", "SSL_KEYFILE"}
    /\ args.settings["SSL_KEYFILE"] # ""
    /\ "ssl_keyfile" \notin DOMAIN run_calls[1]

====
